---- MODULE Spec2Model ----
(***************************************************************************)
(* FP-Growth (src/fpgrowth.py): FP-tree construction and recursive mining. *)
(* The tree is an arena of nodes (a sequence of FPNode records addressed   *)
(* by index); the recursion of mine_patterns is an explicit call stack.    *)
(***************************************************************************)
EXTENDS Integers, Sequences, FiniteSets, TLC

\* ---------------------------------------------------------------- bounds
NumItems == 3
MaxTxns == 3
MaxMinsup == 3

Items == 1..NumItems
\* the call stack never needs more frames than there are items; the guard of
\* MineItem stops a run that would go deeper
MaxDepth == NumItems + 2

\* Python's None (FPNode.item of the root, FPNode.parent, FPNode.link)
None == 0
\* arena index of FPTree.root
Root == 1

\* ---------------------------------------------------------------- helpers
Range(s) == {s[k] : k \in DOMAIN s}

\* a transaction as the program iterates it: a frozenset in some iteration
\* order, i.e. a non-empty sequence of distinct items
ItemSeqs ==
  {s \in UNION {[1..n -> Items] : n \in 1..NumItems} :
     \A i, j \in DOMAIN s : i # j => s[i] # s[j]}

\* F applied to the value of e (e is evaluated once, then F on that value)
Bind(e, F(_)) == CHOOSE r \in {F(v) : v \in {e}} : TRUE

\* sorted(seq, key=...): stable, ascending in key[x]
InsertSorted(sorted, x, key) ==
  LET c == Cardinality({k \in DOMAIN sorted : key[sorted[k]] <= key[x]})
  IN  SubSeq(sorted, 1, c) \o <<x>> \o SubSeq(sorted, c + 1, Len(sorted))

RECURSIVE SortByKey(_, _)
SortByKey(seq, key) ==
  IF seq = <<>> THEN <<>>
  ELSE LET Ins(sorted) == InsertSorted(sorted, seq[Len(seq)], key)
       IN  Bind(SortByKey(SubSeq(seq, 1, Len(seq) - 1), key), Ins)

\* ---------------------------------------------------------------- FPNode / FPTree
FPNode(item, count, parent) ==
  [item |-> item, count |-> count, parent |-> parent, link |-> None]

\* FPTree.__init__ before build_fptree runs
NewTree(minsup) ==
  [nodes |-> <<FPNode(None, 0, None)>>,
   header_table |-> <<>>,
   frequent_items |-> [i \in {} |-> 0],
   minsup |-> minsup]

\* node.children.get(item): the child of node holding item, or None
Child(nodes, node, item) ==
  LET S == {m \in DOMAIN nodes : nodes[m].parent = node /\ nodes[m].item = item}
  IN  IF S = {} THEN None ELSE CHOOSE m \in S : TRUE

\* bool(node.children)
HasChildren(nodes, node) == \E m \in DOMAIN nodes : nodes[m].parent = node

HeaderItems(header_table) == {header_table[k].item : k \in DOMAIN header_table}

HeaderNode(header_table, item) ==
  header_table[CHOOSE k \in DOMAIN header_table : header_table[k].item = item].node

\* while current_node.link is not None: current_node = current_node.link
RECURSIVE ChainTail(_, _)
ChainTail(nodes, cur) ==
  IF nodes[cur].link = None THEN cur ELSE ChainTail(nodes, nodes[cur].link)

\* create a child of node and append it to the item's node-link chain
AddChild(tree, item, node, cnt) ==
  LET new == Len(tree.nodes) + 1
      nodes1 == Append(tree.nodes, FPNode(item, cnt, node))
  IN  IF item \in HeaderItems(tree.header_table)
      THEN LET tail == ChainTail(tree.nodes, HeaderNode(tree.header_table, item))
           IN  [tree EXCEPT !.nodes = [nodes1 EXCEPT ![tail].link = new]]
      ELSE [tree EXCEPT !.nodes = nodes1,
                        !.header_table = Append(@, [item |-> item, node |-> new])]

RECURSIVE insert_tree(_, _, _)
insert_tree(tree, items, node) ==
  IF items = <<>> THEN tree
  ELSE LET first_item == Head(items)
           c == Child(tree.nodes, node, first_item)
           t1 == IF c # None
                 THEN [tree EXCEPT !.nodes[c].count = @ + 1]
                 ELSE AddChild(tree, first_item, node, 1)
           Rest(t) == insert_tree(t, Tail(items), Child(t.nodes, node, first_item))
       IN  Bind(t1, Rest)

\* first pass of build_fptree: one tally per item met while iterating
item_counts(transactions) ==
  [i \in UNION {Range(transactions[k]) : k \in DOMAIN transactions} |->
     Cardinality({p \in UNION {{<<k, j>> : j \in DOMAIN transactions[k]} :
                                 k \in DOMAIN transactions} :
                    transactions[p[1]][p[2]] = i})]

\* the support threshold left out of the first pass
frequent_items_unfiltered(counts, minsup) == counts

frequent_items(counts, minsup) ==
  [i \in {j \in DOMAIN counts : counts[j] >= minsup} |-> counts[i]]

\* sorted(filtered_transaction, key=frequent_items[x], reverse=True)
sorted_transaction(transaction, freq) ==
  LET InFreq(x) == x \in DOMAIN freq
      filtered_transaction == SelectSeq(transaction, InFreq)
  IN  SortByKey(filtered_transaction, [x \in DOMAIN freq |-> 0 - freq[x]])

RECURSIVE InsertAll(_, _)
InsertAll(tree, transactions) ==
  IF transactions = <<>> THEN tree
  ELSE LET Rest(t) == InsertAll(t, Tail(transactions))
       IN  Bind(insert_tree(tree,
                            sorted_transaction(Head(transactions), tree.frequent_items),
                            Root),
                Rest)

build_fptree(transactions, minsup) ==
  LET Second(t) == InsertAll(t, transactions)
  IN  Bind([NewTree(minsup) EXCEPT
              !.frequent_items = frequent_items(item_counts(transactions), minsup)],
           Second)

\* ---------------------------------------------------------------- conditional trees
\* the count of the first node of the chain alone
sum_header_support_head(nodes, node) ==
  IF node = None THEN 0 ELSE nodes[node].count

RECURSIVE sum_header_support(_, _)
sum_header_support(nodes, node) ==
  IF node = None THEN 0
  ELSE nodes[node].count + sum_header_support(nodes, nodes[node].link)

\* the items of the ancestors of a node, from just below the root downwards
RECURSIVE AncestorPath(_, _)
AncestorPath(nodes, parent) ==
  IF parent = None \/ nodes[parent].item = None THEN <<>>
  ELSE Append(AncestorPath(nodes, nodes[parent].parent), nodes[parent].item)

\* the walk to the root started at the node itself instead of at its parent
RECURSIVE find_conditional_pattern_base_self(_, _)
find_conditional_pattern_base_self(nodes, node) ==
  IF node = None THEN <<>>
  ELSE LET path == AncestorPath(nodes, node)
       IN  (IF path # <<>> THEN <<[path |-> path, count |-> nodes[node].count]>>
            ELSE <<>>)
           \o find_conditional_pattern_base_self(nodes, nodes[node].link)

RECURSIVE find_conditional_pattern_base(_, _)
find_conditional_pattern_base(nodes, node) ==
  IF node = None THEN <<>>
  ELSE LET path == AncestorPath(nodes, nodes[node].parent)
       IN  (IF path # <<>> THEN <<[path |-> path, count |-> nodes[node].count]>>
            ELSE <<>>)
           \o find_conditional_pattern_base(nodes, nodes[node].link)

RECURSIVE local_count(_, _)
local_count(patterns, it) ==
  IF patterns = <<>> THEN 0
  ELSE (IF it \in Range(Head(patterns).path) THEN Head(patterns).count ELSE 0)
       + local_count(Tail(patterns), it)

local_counts(patterns) ==
  [it \in UNION {Range(patterns[k].path) : k \in DOMAIN patterns} |->
     local_count(patterns, it)]

\* the support threshold left out of the conditional tree
frequent_unfiltered(counts, minsup) == counts

frequent(counts, minsup) ==
  [i \in {j \in DOMAIN counts : counts[j] >= minsup} |-> counts[i]]

\* position of each item in sorted(frequent.items(), key=(-count, item))
rank(freq) ==
  [it \in DOMAIN freq |->
     Cardinality({j \in DOMAIN freq :
                    freq[j] > freq[it] \/ (freq[j] = freq[it] /\ j < it)})]

\* the counted insertion of one filtered, sorted path
RECURSIVE insert_path(_, _, _, _)
insert_path(tree, items, node, cnt) ==
  IF items = <<>> THEN tree
  ELSE LET it == Head(items)
           c == Child(tree.nodes, node, it)
           t1 == IF c # None
                 THEN [tree EXCEPT !.nodes[c].count = @ + cnt]
                 ELSE AddChild(tree, it, node, cnt)
           Rest(t) == insert_path(t, Tail(items), Child(t.nodes, node, it), cnt)
       IN  Bind(t1, Rest)

RECURSIVE InsertPatterns(_, _, _)
InsertPatterns(tree, patterns, rk) ==
  IF patterns = <<>> THEN tree
  ELSE LET InFreq(x) == x \in DOMAIN rk
           filtered == SortByKey(SelectSeq(Head(patterns).path, InFreq), rk)
           Rest(t) == InsertPatterns(t, Tail(patterns), rk)
       IN  Bind(insert_path(tree, filtered, Root, Head(patterns).count), Rest)

build_conditional_tree_from_patterns(patterns, minsup) ==
  LET new_tree == build_fptree(<<>>, minsup)
      Fill(freq) ==
        IF DOMAIN freq = {} THEN new_tree
        ELSE LET Rest(rk) ==
                   InsertPatterns([new_tree EXCEPT !.frequent_items = freq], patterns, rk)
             IN  Bind(rank(freq), Rest)
  IN  Bind(frequent(local_counts(patterns), minsup), Fill)

\* ---------------------------------------------------------------- mine_patterns
\* sorted(self.header_table.items(), key=frequent_items[item])
mine_items(tree) ==
  SortByKey(tree.header_table,
            [e \in Range(tree.header_table) |-> tree.frequent_items[e.item]])

\* one activation of mine_patterns: its tree, its item list, the index of the
\* item the loop is at, and its patterns dict
NewFrame(tree) ==
  [tree |-> tree, items |-> mine_items(tree), i |-> 1, patterns |-> [k \in {} |-> 0]]

\* tuple(sorted(pat + suffix))
merged(pat, suffix) == SortByKey(pat \o suffix, [x \in Range(pat \o suffix) |-> x])

\* for pat, cnt in cpatterns.items(): patterns[merged] = cnt
merge_patterns(patterns, cpatterns, suffix) ==
  LET keys == {merged(pat, suffix) : pat \in DOMAIN cpatterns}
      m == [k \in keys |->
              cpatterns[CHOOSE pat \in DOMAIN cpatterns : merged(pat, suffix) = k]]
  IN  m @@ patterns

VARIABLES transactions, minsup, pc, tree, stack, result, run, first_result

vars == <<transactions, minsup, pc, tree, stack, result, run, first_result>>

Top == stack[Len(stack)]

Init ==
  /\ transactions = <<>>
  /\ minsup \in 1..MaxMinsup
  /\ pc = "load"
  /\ tree = NewTree(minsup)
  /\ stack = <<>>
  /\ result = <<>>
  /\ run = 1
  /\ first_result = <<>>

\* load_transactions appends one parsed, non-empty itemset
AddTransaction ==
  /\ pc = "load"
  /\ Len(transactions) < MaxTxns
  /\ \E t \in ItemSeqs : transactions' = Append(transactions, t)
  /\ UNCHANGED <<minsup, pc, tree, stack, result, run, first_result>>

\* fpgrowth: FPTree(transactions, minsup), then the call of tree.mine_patterns()
Build ==
  /\ pc = "load"
  /\ \E t \in {build_fptree(transactions, minsup)} :
       /\ tree' = t
       /\ stack' = <<NewFrame(t)>>
  /\ pc' = "mine"
  /\ UNCHANGED <<transactions, minsup, result, run, first_result>>

\* one iteration of the loop of mine_patterns, up to the recursive call
MineItem ==
  /\ pc = "mine"
  /\ stack # <<>>
  /\ Len(stack) < MaxDepth
  /\ Top.i <= Len(Top.items)
  /\ LET d == Len(stack)
         e == Top.items[Top.i]
         base_support == sum_header_support(Top.tree.nodes, e.node)
         patterns1 == (<<e.item>> :> base_support) @@ Top.patterns
     IN  \E cpb \in {find_conditional_pattern_base(Top.tree.nodes, e.node)} :
         \E ctree \in {build_conditional_tree_from_patterns(cpb, Top.tree.minsup)} :
           IF HasChildren(ctree.nodes, Root)
           THEN stack' = Append([stack EXCEPT ![d].patterns = patterns1], NewFrame(ctree))
           ELSE stack' = [stack EXCEPT ![d].patterns = patterns1, ![d].i = @ + 1]
  /\ UNCHANGED <<transactions, minsup, pc, tree, result, run, first_result>>

\* a recursive call returns: the caller merges cpatterns and moves to its next item
Return ==
  /\ pc = "mine"
  /\ Len(stack) > 1
  /\ Top.i > Len(Top.items)
  /\ LET d == Len(stack) - 1
         caller == stack[d]
         suffix == <<caller.items[caller.i].item>>
     IN  stack' = [SubSeq(stack, 1, d) EXCEPT
                     ![d].patterns = merge_patterns(caller.patterns, Top.patterns, suffix),
                     ![d].i = @ + 1]
  /\ UNCHANGED <<transactions, minsup, pc, tree, result, run, first_result>>

\* the outermost mine_patterns returns to fpgrowth
Finish ==
  /\ pc = "mine"
  /\ Len(stack) = 1
  /\ Top.i > Len(Top.items)
  /\ result' = Top.patterns
  /\ stack' = <<>>
  /\ pc' = "done"
  /\ UNCHANGED <<transactions, minsup, tree, run, first_result>>

Permuted(txns, p) == [k \in DOMAIN txns |-> txns[p[k]]]

\* fpgrowth is called again on a permutation of the same transactions
Rerun ==
  /\ pc = "done"
  /\ run = 1
  /\ \E p \in Permutations(DOMAIN transactions) :
       /\ Permuted(transactions, p) # transactions
       /\ transactions' = Permuted(transactions, p)
       /\ \E t \in {build_fptree(Permuted(transactions, p), minsup)} :
            /\ tree' = t
            /\ stack' = <<NewFrame(t)>>
  /\ first_result' = result
  /\ run' = 2
  /\ result' = <<>>
  /\ pc' = "mine"
  /\ UNCHANGED minsup

MineStep == MineItem \/ Return \/ Finish

Next == AddTransaction \/ Build \/ MineItem \/ Return \/ Finish

Spec == Init /\ [][Next]_vars

\* the program is sequential: once mining has started it runs to completion
FairSpec == Spec /\ WF_vars(MineStep)

NextRerun == Next \/ Rerun

RerunSpec == Init /\ [][NextRerun]_vars

\* ---------------------------------------------------------------- properties
\* brute-force support: the number of input transactions holding every item of S
Support(S) ==
  Cardinality({k \in DOMAIN transactions : S \subseteq Range(transactions[k])})

\* the key under which mine_patterns records the itemset S
SortedTuple(S) ==
  CHOOSE s \in [1..Cardinality(S) -> S] :
    \A i, j \in 1..Cardinality(S) : i < j => s[i] < s[j]

\* the nodes of an item's node-link chain, from the header-table entry on
RECURSIVE Chain(_, _)
Chain(nodes, node) ==
  IF node = None THEN {} ELSE {node} \cup Chain(nodes, nodes[node].link)

RECURSIVE SumCounts(_, _)
SumCounts(nodes, S) ==
  IF S = {} THEN 0
  ELSE LET n == CHOOSE x \in S : TRUE IN nodes[n].count + SumCounts(nodes, S \ {n})

ItemChain(t, item) == Chain(t.nodes, HeaderNode(t.header_table, item))

Alphabet(t) ==
  {t.nodes[n].item : n \in DOMAIN t.nodes \ {Root}}
    \cup HeaderItems(t.header_table) \cup DOMAIN t.frequent_items

\* the order the tree is said to be built in: descending tally, then ascending item
Before(t, a, b) ==
  \/ t.frequent_items[a] > t.frequent_items[b]
  \/ t.frequent_items[a] = t.frequent_items[b] /\ a < b

RootPath(t, n) == Append(AncestorPath(t.nodes, t.nodes[n].parent), t.nodes[n].item)

PathsFollowOrder(t) ==
  \A n \in DOMAIN t.nodes \ {Root} :
    LET path == RootPath(t, n)
    IN  \A i, j \in DOMAIN path : i < j => Before(t, path[i], path[j])

NoOppositePaths(t) ==
  \A n1, n2 \in DOMAIN t.nodes \ {Root} :
    LET p1 == RootPath(t, n1)
        p2 == RootPath(t, n2)
    IN  \A i1, j1 \in DOMAIN p1 : \A i2, j2 \in DOMAIN p2 :
          ~(i1 < j1 /\ j2 < i2 /\ p1[i1] = p2[i2] /\ p1[j1] = p2[j2])

NoFrequentItem == \A i \in Items : Support({i}) < minsup

\* C1: when fpgrowth has returned, every non-empty itemset whose brute-force
\* support is at least minsup is a key of the result, whatever the iteration
\* order of each transaction.
C1_Exhaustive ==
  pc = "done" =>
    \A S \in (SUBSET Items) \ {{}} :
      Support(S) >= minsup => SortedTuple(S) \in DOMAIN result

\* C2: the count recorded for every itemset of the result is its support, the
\* number of input transactions holding all of its items.
C2_CountIsSupport ==
  pc = "done" => \A k \in DOMAIN result : result[k] = Support(Range(k))

\* C3: every single item of the result is reported with the sum of count over
\* its whole node-link chain in the top-level tree (the chain holds every node
\* of the item), and that sum is the number of transactions holding the item.
C3_SingletonSupport ==
  pc = "done" =>
    \A k \in DOMAIN result :
      Len(k) = 1 =>
        /\ k[1] \in HeaderItems(tree.header_table)
        /\ ItemChain(tree, k[1]) = {n \in DOMAIN tree.nodes : tree.nodes[n].item = k[1]}
        /\ result[k] = SumCounts(tree.nodes, ItemChain(tree, k[1]))
        /\ result[k] = Support({k[1]})

\* an item reported from a chain of at least two nodes (two branches of the tree)
C3_Witness ==
  /\ pc = "done"
  /\ \E k \in DOMAIN result :
       /\ Len(k) = 1
       /\ Cardinality(ItemChain(tree, k[1])) >= 2
       /\ result[k] = Support({k[1]})

\* C4: for reported itemsets A and B with A a subset of B, the count recorded
\* for A is at least the count recorded for B.
C4_Monotone ==
  pc = "done" =>
    \A a, b \in DOMAIN result : Range(a) \subseteq Range(b) => result[a] >= result[b]

\* C5: fpgrowth on a permutation of the transaction sequence returns the same
\* mapping as on the sequence itself.
C5_OrderIndependent ==
  (pc = "done" /\ run = 2) => result = first_result

\* C6: every itemset of the result has a recorded count of at least minsup and
\* a brute-force support of at least minsup.
C6_Threshold ==
  pc = "done" =>
    \A k \in DOMAIN result : result[k] >= minsup /\ Support(Range(k)) >= minsup

\* a result with a multi-item pattern, mined with minsup > 1 from an input
\* that also holds an itemset below the threshold
C6_Witness ==
  /\ pc = "done"
  /\ minsup >= 2
  /\ \E k \in DOMAIN result : Len(k) >= 2
  /\ \E S \in (SUBSET Items) \ {{}} : Support(S) >= 1 /\ Support(S) < minsup

\* C7: with no transactions, or with no item whose tally reaches minsup, the
\* tree built is the empty tree (root without child, empty header table),
\* mining it returns at once, and the mapping returned is empty.
C7_EmptyInput ==
  (pc # "load" /\ NoFrequentItem) =>
    /\ ~HasChildren(tree.nodes, Root)
    /\ tree.header_table = <<>>
    /\ pc = "mine" => ENABLED Finish
    /\ pc = "done" => result = <<>>

\* transactions were given, none of their items reaches minsup
C7_Witness ==
  /\ pc = "done"
  /\ transactions # <<>>
  /\ NoFrequentItem
  /\ result = <<>>

\* C8: in every tree built, top-level or conditional, the items along every
\* root-to-node path follow one order, descending tally with ties broken by
\* ascending item, and no two paths hold the same two items in opposite order.
C8_FixedOrder ==
  \A d \in DOMAIN stack :
    PathsFollowOrder(stack[d].tree) /\ NoOppositePaths(stack[d].tree)

\* C9: no step of mine_patterns changes the count already recorded for an
\* itemset in the patterns of an activation.
C9_MergeUnique ==
  [][\A d \in (DOMAIN stack) \cap (DOMAIN stack') :
       \A k \in (DOMAIN stack[d].patterns) \cap (DOMAIN stack'[d].patterns) :
         stack'[d].patterns[k] = stack[d].patterns[k]]_vars

\* C10: every conditional tree that is mined has a child under its root and an
\* alphabet inside that of the tree it was extracted from, without the item
\* conditioned on; and mining, once started, ends.
AlphabetShrinks ==
  \A d \in DOMAIN stack :
    d > 1 =>
      LET caller == stack[d - 1]
      IN  /\ HasChildren(stack[d].tree.nodes, Root)
          /\ Alphabet(stack[d].tree)
               \subseteq Alphabet(caller.tree) \ {caller.items[caller.i].item}

C10_Termination == [](AlphabetShrinks) /\ ((pc = "mine") ~> (pc = "done"))

\* a recursion two levels below the top-level tree
C10_Witness == Len(stack) >= 3

====
